---- MODULE Spec2Model ----
(***************************************************************************)
(* Model of autoclicker.py: the command line front end (main, run_cli),    *)
(* the interactive form (run_gui with its Start/Stop handlers) and the     *)
(* click loop (run_click_loop) that runs in the main thread (CLI) or in a  *)
(* daemon worker thread (form).                                            *)
(***************************************************************************)
EXTENDS Integers, Sequences, FiniteSets, TLC

----------------------------------------------------------------------------
(* Bounds of the model *)

\* largest --count value and largest digit used in the count field
MaxCount == 2
\* iterations an unbounded (count = 0) loop is followed for
MaxClicks == 2
\* thread slots available to the form (the code needs only one)
MaxWorkers == 2
\* --interval is drawn in steps of 1/SubMs millisecond, up to 1 millisecond
SubMs == 2
\* length of a clock tick in milliseconds (TimedSpec)
TickMs == 50
\* ticks the clock is followed for (TimedSpec)
MaxTime == 5

----------------------------------------------------------------------------
(* Inputs *)

Buttons == {"left", "right"}
Platforms == {"Windows", "Linux"}

\* args.interval = steps / (SubMs * 1000) seconds
ArgIntervals == (-1)..SubMs
ArgCounts == (-1)..MaxCount
\* args.delay in seconds; 3 is the default
ArgDelays == {-1, 0, 3}

Args == [interval : ArgIntervals, count : ArgCounts, button : Buttons,
         delay : ArgDelays, gui : BOOLEAN]

NoArgs == [interval |-> 0, count |-> 0, button |-> "none", delay |-> 0,
           gui |-> FALSE]

\* texts the user can type into the form's entry fields
IntervalTexts == {<<"1", "0", "0">>, <<"0">>}
CountTexts == {<<"0">>, <<" ", "2">>, <<"-", "1">>, <<"x">>}

----------------------------------------------------------------------------
(* ClickConfig and its validation *)

ClickConfig(interval_ms, count, button, delay_s) ==
    [interval_ms |-> interval_ms, count |-> count, button |-> button,
     delay_s |-> delay_s]

NoConfig == ClickConfig(0, 0, "none", 0)

MsgInterval == "Interval muss größer als 0 sein."
MsgDelay == "Delay darf nicht negativ sein."
MsgCount == "Count darf nicht negativ sein."

\* variant: the interval test written with < instead of <=
validate_config_ZeroInterval(config) ==
    IF config.interval_ms < 0 THEN MsgInterval
    ELSE IF config.delay_s < 0 THEN MsgDelay
    ELSE IF config.count < 0 THEN MsgCount
    ELSE "ok"

\* variant: the count test left out
validate_config_NoCount(config) ==
    IF config.interval_ms <= 0 THEN MsgInterval
    ELSE IF config.delay_s < 0 THEN MsgDelay
    ELSE "ok"

\* "ok" when validate_config returns, else the message of the ValueError
validate_config(config) ==
    IF config.interval_ms <= 0 THEN MsgInterval
    ELSE IF config.delay_s < 0 THEN MsgDelay
    ELSE IF config.count < 0 THEN MsgCount
    ELSE "ok"

\* int(x) of a quotient n / d (d > 0): truncation towards zero
TruncDiv(n, d) == IF n >= 0 THEN n \div d ELSE -((-n) \div d)

\* int(args.interval * 1000) with args.interval = steps / (SubMs * 1000)
IntervalMs(steps) == TruncDiv(steps, SubMs)

\* variant: the release code of the right button mistaken for 0x0020
resolve_flags_WrongUp(button) ==
    IF button = "left" THEN <<2, 4>> ELSE <<8, 32>>

resolve_flags(button) ==
    IF button = "left" THEN <<2, 4>> ELSE <<8, 16>>

----------------------------------------------------------------------------
(* int(str) as used by build_config *)

DigitChars == <<"0", "1", "2", "3", "4", "5", "6", "7", "8", "9">>
IsDigit(c) == \E i \in 1..10 : DigitChars[i] = c
DigitVal(c) == (CHOOSE i \in 1..10 : DigitChars[i] = c) - 1

RECURSIVE LStrip(_)
LStrip(s) == IF s # <<>> /\ Head(s) = " " THEN LStrip(Tail(s)) ELSE s

RECURSIVE RStrip(_)
RStrip(s) ==
    IF s # <<>> /\ s[Len(s)] = " " THEN RStrip(SubSeq(s, 1, Len(s) - 1)) ELSE s

RECURSIVE DigitsValue(_, _)
DigitsValue(s, acc) ==
    IF s = <<>> THEN acc ELSE DigitsValue(Tail(s), 10 * acc + DigitVal(Head(s)))

\* [ok |-> FALSE] models the ValueError of int()
ParseInt(text) ==
    LET s == RStrip(LStrip(text))
        signed == s # <<>> /\ Head(s) \in {"-", "+"}
        digits == IF signed THEN Tail(s) ELSE s
    IN  IF digits = <<>> \/ \E i \in 1..Len(digits) : ~IsDigit(digits[i])
        THEN [ok |-> FALSE, value |-> 0]
        ELSE [ok |-> TRUE,
              value |-> IF signed /\ Head(s) = "-"
                        THEN -DigitsValue(digits, 0)
                        ELSE DigitsValue(digits, 0)]

----------------------------------------------------------------------------
(* State *)

VARIABLES
    pc,            \* position of the main thread
    platform,      \* platform.system()
    args,          \* the parsed command line
    config,        \* main's ClickConfig
    exitCode,      \* process exit code, -1 while running
    interval_var,  \* form field "Abstand (ms)"
    count_var,     \* form field "Clicks"
    button_var,    \* form field "Taste"
    status_var,    \* form status line
    stop_event,    \* run_gui's threading.Event
    worker,        \* run_gui's worker handle: 0 is None, else a thread slot
    loop,          \* per thread: the activation of run_click_loop
    valLog,        \* outcome of validate_config applied on its own (ValSpec)
    clock          \* time in ticks, advanced in TimedSpec only

vars == <<pc, platform, args, config, exitCode, interval_var, count_var,
          button_var, status_var, stop_event, worker, loop, valLog, clock>>

formVars == <<interval_var, count_var, button_var, status_var>>

\* thread 0 is the main thread (run_cli), the others are Thread objects
MainThread == 0
Workers == 1..MaxWorkers
Threads == {MainThread} \cup Workers

\* pc .. clicks_done are run_click_loop's; the other fields record its run:
\* trace the events emitted, delayed that the start delay has been slept,
\* sleeps_after_set / presses_after_set the interval sleeps ended and the
\* presses emitted while the stop event was set, stale_stop (until the
\* thread's first step) that Start found the stop event still set
NoLoop == [pc |-> "idle", config |-> NoConfig, clicks_done |-> 0,
           trace |-> <<>>, delayed |-> FALSE, sleeps_after_set |-> 0,
           presses_after_set |-> 0, stale_stop |-> FALSE]

\* run_click_loop entered with this config
NewLoop(cfg) == [NoLoop EXCEPT !.pc = "begin", !.config = cfg]

RunningPcs == {"begin", "delay", "test", "down", "up", "sleep"}

is_alive(t) == loop[t].pc \in RunningPcs

\* now: ticks of TickMs milliseconds since the Start of the handle's worker;
\* asleep: the ticks that worker has spent in time.sleep(interval_s), up to
\* the requested ones; since_set: the ticks passed with the stop event set
NoClock == [now |-> 0, asleep |-> 0, since_set |-> 0]

Init ==
    /\ pc = "parse"
    /\ platform \in Platforms
    /\ args = NoArgs
    /\ config = NoConfig
    /\ exitCode = -1
    /\ interval_var = <<>>
    /\ count_var = <<>>
    /\ button_var = "none"
    /\ status_var = ""
    /\ stop_event = FALSE
    /\ worker = 0
    /\ loop = [t \in Threads |-> NoLoop]
    /\ valLog = "none"
    /\ clock = NoClock

----------------------------------------------------------------------------
(* run_click_loop, one step at a time, in thread t *)

\* variant: the while condition written with <= instead of <
LoopCondition_OffByOne(cfg, clicks_done) ==
    cfg.count = 0 \/ clicks_done <= cfg.count

\* the while condition of the loop
LoopCondition(cfg, clicks_done) ==
    cfg.count = 0 \/ clicks_done < cfg.count

\* variant: the event is passed but never consulted
StopObserved_Never(t) == FALSE

\* variant: the event is consulted before the first click only
StopObserved_OnlyFirst(t) ==
    t # MainThread /\ stop_event /\ loop[t].clicks_done = 0

\* "stop_event and stop_event.is_set()": run_cli passes no event
StopObserved(t) == t # MainThread /\ stop_event

\* variant: the start delay is not slept
LoopBegin_NoDelay(t) ==
    /\ loop[t].pc = "begin"
    /\ loop' = [loop EXCEPT ![t].pc = "test", ![t].stale_stop = FALSE]
    /\ UNCHANGED <<pc, platform, args, config, exitCode, formVars, stop_event,
                   worker, valLog, clock>>

\* load user32, resolve the flags, convert the interval, test the delay
LoopBegin(t) ==
    /\ loop[t].pc = "begin"
    /\ loop' = [loop EXCEPT
                   ![t].pc = IF loop[t].config.delay_s # 0 THEN "delay"
                                                           ELSE "test",
                   ![t].stale_stop = FALSE]
    /\ UNCHANGED <<pc, platform, args, config, exitCode, formVars, stop_event,
                   worker, valLog, clock>>

\* time.sleep(config.delay_s) returns
DelaySleep(t) ==
    /\ loop[t].pc = "delay"
    /\ loop' = [loop EXCEPT ![t].pc = "test", ![t].delayed = TRUE]
    /\ UNCHANGED <<pc, platform, args, config, exitCode, formVars, stop_event,
                   worker, valLog, clock>>

\* the while condition and the check of the stop event; an unbounded loop is
\* followed for MaxClicks iterations unless it is about to leave
LoopTest(t) ==
    /\ loop[t].pc = "test"
    /\ \/ loop[t].clicks_done < MaxClicks
       \/ ~LoopCondition(loop[t].config, loop[t].clicks_done)
       \/ StopObserved(t)
    /\ loop' = [loop EXCEPT ![t].pc =
                   IF ~LoopCondition(loop[t].config, loop[t].clicks_done)
                   THEN "done"
                   ELSE IF StopObserved(t) THEN "done" ELSE "down"]
    /\ UNCHANGED <<pc, platform, args, config, exitCode, formVars, stop_event,
                   worker, valLog, clock>>

\* user32.mouse_event(down_flag, 0, 0, 0, 0)
MouseDown(t) ==
    /\ loop[t].pc = "down"
    /\ loop' = [loop EXCEPT
                   ![t].pc = "up",
                   ![t].trace = Append(@, resolve_flags(loop[t].config.button)[1]),
                   ![t].presses_after_set =
                       IF t # MainThread /\ stop_event THEN @ + 1 ELSE @]
    /\ UNCHANGED <<pc, platform, args, config, exitCode, formVars, stop_event,
                   worker, valLog, clock>>

\* user32.mouse_event(up_flag, 0, 0, 0, 0); clicks_done += 1
MouseUp(t) ==
    /\ loop[t].pc = "up"
    /\ loop' = [loop EXCEPT
                   ![t].pc = "sleep",
                   ![t].trace = Append(@, resolve_flags(loop[t].config.button)[2]),
                   ![t].clicks_done = @ + 1]
    /\ UNCHANGED <<pc, platform, args, config, exitCode, formVars, stop_event,
                   worker, valLog, clock>>

\* time.sleep(interval_s) returns; sleeps_after_set counts the interval sleeps
\* of this activation that end while its stop event is set
IntervalSleep(t) ==
    /\ loop[t].pc = "sleep"
    /\ loop' = [loop EXCEPT
                   ![t].pc = "test",
                   ![t].sleeps_after_set =
                       IF t # MainThread /\ stop_event THEN @ + 1 ELSE @]
    /\ UNCHANGED <<pc, platform, args, config, exitCode, formVars, stop_event,
                   worker, valLog, clock>>

LoopStep(t) ==
    \/ LoopBegin(t)
    \/ DelaySleep(t)
    \/ LoopTest(t)
    \/ MouseDown(t)
    \/ MouseUp(t)
    \/ IntervalSleep(t)

----------------------------------------------------------------------------
(* main and run_cli *)

\* parser.error(message): print the usage and exit with status 2
ParserErrorExit == 2

AllDead == [t \in Threads |-> IF is_alive(t)
                              THEN [loop[t] EXCEPT !.pc = "killed"]
                              ELSE loop[t]]

\* parser.parse_args() with the five flags of build_parser
ParseArgs ==
    /\ pc = "parse"
    /\ \E a \in Args : args' = a
    /\ pc' = "platform"
    /\ UNCHANGED <<platform, config, exitCode, formVars, stop_event, worker,
                   loop, valLog, clock>>

\* variant: the platform test left out
PlatformCheck_Missing ==
    /\ pc = "platform"
    /\ pc' = "config"
    /\ UNCHANGED <<platform, args, config, exitCode, formVars, stop_event,
                   worker, loop, valLog, clock>>

\* if platform.system() != "Windows": parser.error(...)
PlatformCheck ==
    /\ pc = "platform"
    /\ IF platform # "Windows"
       THEN pc' = "exit" /\ exitCode' = ParserErrorExit
       ELSE pc' = "config" /\ UNCHANGED exitCode
    /\ UNCHANGED <<platform, args, config, formVars, stop_event, worker, loop,
                   valLog, clock>>

\* config = ClickConfig(int(args.interval * 1000), ...)
BuildConfig ==
    /\ pc = "config"
    /\ config' = ClickConfig(IntervalMs(args.interval), args.count,
                             args.button, args.delay)
    /\ pc' = "validate"
    /\ UNCHANGED <<platform, args, exitCode, formVars, stop_event, worker,
                   loop, valLog, clock>>

\* validate_config_cli(config, parser)
validate_config_cli ==
    /\ pc = "validate"
    /\ IF validate_config(config) # "ok"
       THEN pc' = "exit" /\ exitCode' = ParserErrorExit
       ELSE pc' = "dispatch" /\ UNCHANGED exitCode
    /\ UNCHANGED <<platform, args, config, formVars, stop_event, worker, loop,
                   valLog, clock>>

\* if args.gui: run_gui(parser) up to root.mainloop()
run_gui ==
    /\ pc = "dispatch"
    /\ args.gui
    /\ interval_var' = <<"1", "0", "0">>
    /\ count_var' = <<"0">>
    /\ button_var' = "left"
    /\ status_var' = "Bereit"
    /\ stop_event' = FALSE
    /\ worker' = 0
    /\ pc' = "gui"
    /\ UNCHANGED <<platform, args, config, exitCode, loop, valLog, clock>>

\* run_cli(config): print the banner and enter run_click_loop(config)
run_cli ==
    /\ pc = "dispatch"
    /\ ~args.gui
    /\ loop' = [loop EXCEPT ![MainThread] = NewLoop(config)]
    /\ pc' = "cli"
    /\ UNCHANGED <<platform, args, config, exitCode, formVars, stop_event,
                   worker, valLog, clock>>

\* run_click_loop returned to run_cli, run_cli to main: return 0
CliReturn ==
    /\ pc = "cli"
    /\ loop[MainThread].pc = "done"
    /\ pc' = "exit"
    /\ exitCode' = 0
    /\ UNCHANGED <<platform, args, config, formVars, stop_event, worker, loop,
                   valLog, clock>>

\* variant: no except clause, the KeyboardInterrupt ends the process
KeyboardInterrupt_Uncaught ==
    /\ pc = "cli"
    /\ is_alive(MainThread)
    /\ loop' = [loop EXCEPT ![MainThread].pc = "raised"]
    /\ pc' = "exit"
    /\ exitCode' = 1
    /\ UNCHANGED <<platform, args, config, formVars, stop_event, worker,
                   valLog, clock>>

\* Ctrl+C while run_click_loop runs inside run_cli's try: the loop is left by
\* the exception, run_cli prints "Autoclicker gestoppt." and main returns 0
KeyboardInterrupt ==
    /\ pc = "cli"
    /\ is_alive(MainThread)
    /\ loop' = [loop EXCEPT ![MainThread].pc = "raised"]
    /\ pc' = "exit"
    /\ exitCode' = 0
    /\ UNCHANGED <<platform, args, config, formVars, stop_event, worker,
                   valLog, clock>>

----------------------------------------------------------------------------
(* run_gui: the handlers of the form, run by the interface thread *)

\* build_config(): the config, or None (ok = FALSE) with the status it sets
build_config ==
    LET interval_ms == ParseInt(interval_var)
        count == ParseInt(count_var)
        cfg == ClickConfig(interval_ms.value, count.value, button_var, 0)
    IN  IF ~interval_ms.ok \/ ~count.ok
        THEN [ok |-> FALSE, config |-> NoConfig,
              status |-> "Bitte gültige Zahlen eingeben."]
        ELSE IF validate_config(cfg) # "ok"
        THEN [ok |-> FALSE, config |-> cfg,
              status |-> validate_config(cfg)]
        ELSE [ok |-> TRUE, config |-> cfg,
              status |-> status_var]

\* variant: the test for a running worker left out
WorkerActive_Never == FALSE

\* variant: a worker that was told to stop no longer counts as running
WorkerActive_UnlessStopped == worker # 0 /\ is_alive(worker) /\ ~stop_event

\* "if worker and worker.is_alive()"
WorkerActive == worker # 0 /\ is_alive(worker)

\* the slot of the Thread object a Start creates: the first one not running
FreeSlot == CHOOSE t \in Workers :
                ~is_alive(t) /\ \A u \in Workers : u < t => is_alive(u)

\* variant: stop_event.clear() left out
start_clicking_NoClear ==
    /\ pc = "gui"
    /\ IF WorkerActive
       THEN /\ status_var' = "Autoclicker läuft bereits."
            /\ UNCHANGED <<stop_event, worker, loop>>
       ELSE LET built == build_config
            IN  IF ~built.ok
                THEN /\ status_var' = built.status
                     /\ UNCHANGED <<stop_event, worker, loop>>
                ELSE /\ \E t \in Workers : ~is_alive(t)
                     /\ UNCHANGED stop_event
                     /\ status_var' = "Läuft..."
                     /\ worker' = FreeSlot
                     /\ loop' = [loop EXCEPT
                                    ![FreeSlot] =
                                        [NewLoop(built.config) EXCEPT
                                            !.stale_stop = stop_event]]
    /\ UNCHANGED <<pc, platform, args, config, exitCode, interval_var,
                   count_var, button_var, valLog, clock>>

\* variant: stop_event.clear() placed before build_config()
start_clicking_ClearFirst ==
    /\ pc = "gui"
    /\ IF WorkerActive
       THEN /\ status_var' = "Autoclicker läuft bereits."
            /\ UNCHANGED <<stop_event, worker, loop>>
       ELSE LET built == build_config
            IN  IF ~built.ok
                THEN /\ status_var' = built.status
                     /\ stop_event' = FALSE
                     /\ UNCHANGED <<worker, loop>>
                ELSE /\ \E t \in Workers : ~is_alive(t)
                     /\ stop_event' = FALSE
                     /\ status_var' = "Läuft..."
                     /\ worker' = FreeSlot
                     /\ loop' = [loop EXCEPT
                                    ![FreeSlot] =
                                        [NewLoop(built.config) EXCEPT
                                            !.stale_stop = stop_event]]
    /\ UNCHANGED <<pc, platform, args, config, exitCode, interval_var,
                   count_var, button_var, valLog, clock>>

\* the Start button
start_clicking ==
    /\ pc = "gui"
    /\ IF WorkerActive
       THEN /\ status_var' = "Autoclicker läuft bereits."
            /\ UNCHANGED <<stop_event, worker, loop>>
       ELSE LET built == build_config
            IN  IF ~built.ok
                THEN /\ status_var' = built.status
                     /\ UNCHANGED <<stop_event, worker, loop>>
                ELSE /\ \E t \in Workers : ~is_alive(t)
                     /\ stop_event' = FALSE
                     /\ status_var' = "Läuft..."
                     /\ worker' = FreeSlot
                     /\ loop' = [loop EXCEPT
                                    ![FreeSlot] =
                                        [NewLoop(built.config) EXCEPT
                                            !.stale_stop = stop_event]]
    /\ UNCHANGED <<pc, platform, args, config, exitCode, interval_var,
                   count_var, button_var, valLog, clock>>

\* the Stop button
stop_clicking ==
    /\ pc = "gui"
    /\ stop_event' = TRUE
    /\ status_var' = "Gestoppt"
    /\ UNCHANGED <<pc, platform, args, config, exitCode, interval_var,
                   count_var, button_var, worker, loop, valLog, clock>>

\* the user edits the entry "Abstand (ms)"
EditInterval ==
    /\ pc = "gui"
    /\ \E text \in IntervalTexts : interval_var' = text
    /\ UNCHANGED <<pc, platform, args, config, exitCode, count_var, button_var,
                   status_var, stop_event, worker, loop, valLog, clock>>

\* variant: the running loop reads the count from the entry field
EditCount_Live ==
    /\ pc = "gui"
    /\ \E text \in CountTexts :
           /\ count_var' = text
           /\ loop' = [t \in Threads |->
                         IF t \in Workers /\ is_alive(t) /\ ParseInt(text).ok
                         THEN [loop[t] EXCEPT
                                  !.config.count = ParseInt(text).value]
                         ELSE loop[t]]
    /\ UNCHANGED <<pc, platform, args, config, exitCode, interval_var,
                   button_var, status_var, stop_event, worker, valLog, clock>>

\* the user edits the entry "Clicks"
EditCount ==
    /\ pc = "gui"
    /\ \E text \in CountTexts : count_var' = text
    /\ UNCHANGED <<pc, platform, args, config, exitCode, interval_var,
                   button_var, status_var, stop_event, worker, loop,
                   valLog, clock>>

\* the user picks an entry of the option menu "Taste"
SelectButton ==
    /\ pc = "gui"
    /\ \E b \in Buttons : button_var' = b
    /\ UNCHANGED <<pc, platform, args, config, exitCode, interval_var,
                   count_var, status_var, stop_event, worker, loop,
                   valLog, clock>>

\* the window is closed: mainloop returns, main returns 0 and the daemon
\* worker dies with the process
CloseWindow ==
    /\ pc = "gui"
    /\ pc' = "exit"
    /\ exitCode' = 0
    /\ loop' = AllDead
    /\ UNCHANGED <<platform, args, config, formVars, stop_event, worker,
                   valLog, clock>>

----------------------------------------------------------------------------
(* Specifications *)

Next ==
    \/ ParseArgs
    \/ PlatformCheck
    \/ BuildConfig
    \/ validate_config_cli
    \/ run_gui
    \/ run_cli
    \/ CliReturn
    \/ KeyboardInterrupt
    \/ start_clicking
    \/ stop_clicking
    \/ EditInterval
    \/ EditCount
    \/ SelectButton
    \/ CloseWindow
    \/ \E t \in Threads : LoopStep(t)

Spec == Init /\ [][Next]_vars

\* validate_config applied to any ClickConfig of small integers
ValRange == (-MaxCount)..MaxCount

ValInit ==
    /\ pc = "validate_config"
    /\ platform = "Windows"
    /\ args = NoArgs
    /\ config \in [interval_ms : ValRange, count : ValRange, button : Buttons,
                    delay_s : ValRange]
    /\ exitCode = -1
    /\ interval_var = <<>>
    /\ count_var = <<>>
    /\ button_var = "none"
    /\ status_var = ""
    /\ stop_event = FALSE
    /\ worker = 0
    /\ loop = [t \in Threads |-> NoLoop]
    /\ valLog = "none"
    /\ clock = NoClock

ValidateCall ==
    /\ pc = "validate_config"
    /\ valLog' = validate_config(config)
    /\ pc' = "validated"
    /\ UNCHANGED <<platform, args, config, exitCode, formVars, stop_event,
                   worker, loop, clock>>

ValNext == ValidateCall

ValSpec == ValInit /\ [][ValNext]_vars

\* threads that can run are scheduled, and sleeps end
FairSpec == Spec /\ \A t \in Threads : WF_vars(LoopStep(t))

----------------------------------------------------------------------------
(* The handle's worker against a clock: from an accepted Start to its end *)

\* variant: interval_s computed with // 1000 instead of / 1000.0
SleepTicks_Truncated(interval_ms) == (interval_ms \div 1000) * (1000 \div TickMs)

\* ticks that time.sleep(interval_ms / 1000.0) lasts at least
SleepTicks(interval_ms) == (interval_ms + TickMs - 1) \div TickMs

\* the sleep the worker is in has lasted the requested time
SleepDue(t) ==
    clock.asleep >= loop[t].clicks_done * SleepTicks(loop[t].config.interval_ms)

\* the state right after Start was accepted, at time 0, for valid fields
TimedInit ==
    /\ pc = "gui"
    /\ platform = "Windows"
    /\ args = [interval |-> SubMs, count |-> 0, button |-> "left",
               delay |-> 0, gui |-> TRUE]
    /\ config = ClickConfig(IntervalMs(SubMs), 0, "left", 0)
    /\ exitCode = -1
    /\ interval_var \in {<<"1", "0", "0">>, <<"5", "0">>}
    /\ count_var \in {<<"0">>, <<" ", "2">>}
    /\ button_var \in Buttons
    /\ status_var = "Läuft..."
    /\ stop_event = FALSE
    /\ worker = 1
    /\ loop = [t \in Threads |->
                  IF t = 1
                  THEN NewLoop(ClickConfig(ParseInt(interval_var).value,
                                           ParseInt(count_var).value,
                                           button_var, 0))
                  ELSE NoLoop]
    /\ valLog = "none"
    /\ clock = NoClock

\* a tick passes: a sleeping worker has slept one more tick of its request,
\* a set stop event has been set for one more tick
Tick ==
    /\ pc = "gui"
    /\ clock.now < MaxTime
    /\ clock' = [now |-> clock.now + 1,
                 asleep |-> IF /\ WorkerActive
                               /\ loop[worker].pc = "sleep"
                               /\ ~SleepDue(worker)
                            THEN clock.asleep + 1
                            ELSE clock.asleep,
                 since_set |-> IF stop_event THEN clock.since_set + 1
                                             ELSE clock.since_set]
    /\ UNCHANGED <<pc, platform, args, config, exitCode, formVars, stop_event,
                   worker, loop, valLog>>

\* time.sleep(interval_s) returns, not before the interval has passed
TimedIntervalSleep(t) ==
    /\ t = worker
    /\ SleepDue(t)
    /\ IntervalSleep(t)

TimedNext ==
    \/ Tick
    \/ stop_clicking
    \/ \E t \in Workers :
           \/ LoopBegin(t)
           \/ LoopTest(t)
           \/ MouseDown(t)
           \/ MouseUp(t)
           \/ TimedIntervalSleep(t)

TimedSpec == TimedInit /\ [][TimedNext]_vars

----------------------------------------------------------------------------
(* Properties *)

\* a config that validation must reject, stated on the fields
Invalid(cfg) == cfg.interval_ms <= 0 \/ cfg.delay_s < 0 \/ cfg.count < 0

\* the trace consists of exactly n press/release pairs of the button
IsPairs(trace, button, n) ==
    /\ Len(trace) = 2 * n
    /\ \A i \in 1..n : /\ trace[2 * i - 1] = resolve_flags(button)[1]
                       /\ trace[2 * i] = resolve_flags(button)[2]

\* thread t runs without a stop event, or its stop event has not been set
\* since the Start that launched it
SignalUnset(t) == t = MainThread \/ (t = worker /\ ~stop_event)

\* C1: a loop with count = N > 0 whose cancellation signal is absent or was
\* never set never emits more than N press/release pairs, has emitted exactly
\* N pairs when it has returned, and does return unless the process ends
\* (the CLI loop in the main thread, the form's loop in the handle's worker).
C1_ExactlyNPairs ==
    /\ [](\A t \in Threads :
            (loop[t].config.count > 0 /\ SignalUnset(t)) =>
                /\ Len(loop[t].trace) <= 2 * loop[t].config.count
                /\ loop[t].pc = "done" =>
                       IsPairs(loop[t].trace, loop[t].config.button,
                               loop[t].config.count))
    /\ (is_alive(MainThread) /\ loop[MainThread].config.count > 0)
           ~> ~is_alive(MainThread)
    /\ (WorkerActive /\ loop[worker].config.count > 0) ~> ~WorkerActive

C1_Witness ==
    /\ loop[MainThread].pc = "done"
    /\ loop[MainThread].config.count = MaxCount
    /\ Len(loop[MainThread].trace) = 2 * MaxCount

\* C2: a loop with count = 0 has returned only if it has a cancellation
\* signal and that signal is set, and between the setting of the signal and
\* the return at most one interval sleep ends.
C2_UnboundedUntilStop ==
    \A t \in Threads :
        loop[t].config.count = 0 /\ loop[t].pc # "idle" =>
            /\ loop[t].pc = "done" => (t # MainThread /\ stop_event)
            /\ loop[t].sleeps_after_set <= 1

C2_Witness ==
    \E t \in Workers :
        /\ loop[t].pc = "done"
        /\ loop[t].config.count = 0
        /\ loop[t].sleeps_after_set = 1
        /\ Len(loop[t].trace) = 2 * MaxClicks

\* C3: validate_config applied to a config with interval <= 0, delay < 0 or
\* count < 0 fails, with a message naming a field that is out of range, and
\* passes otherwise; the call changes neither the config nor any other state.
C3_ValidateRejects ==
    /\ [](pc = "validated" =>
            /\ Invalid(config) <=> valLog \in {MsgInterval, MsgDelay, MsgCount}
            /\ valLog = MsgInterval => config.interval_ms <= 0
            /\ valLog = MsgDelay => config.delay_s < 0
            /\ valLog = MsgCount => config.count < 0
            /\ ~Invalid(config) => valLog = "ok")
    /\ [][UNCHANGED <<config, loop, stop_event, worker, formVars, exitCode,
                      args>>]_vars

C3_Witness ==
    /\ pc = "validated"
    /\ config.interval_ms > 0 /\ config.delay_s >= 0 /\ config.count < 0
    /\ valLog = MsgCount

\* C4: no loop is ever started, and so no press or release emitted, with a
\* config that fails validation; while main's config is invalid (or not yet
\* built) no thread has emitted an event.
C4_NoClickForInvalid ==
    /\ \A t \in Threads :
           Invalid(loop[t].config) => loop[t].pc = "idle" /\ loop[t].trace = <<>>
    /\ Invalid(config) =>
           /\ pc \in {"parse", "platform", "config", "validate", "exit"}
           /\ \A t \in Threads : loop[t].trace = <<>>

C4_Witness ==
    /\ pc = "exit"
    /\ platform = "Windows"
    /\ config.interval_ms > 0 /\ config.delay_s >= 0 /\ config.count = -1
    /\ \A t \in Threads : loop[t].pc = "idle"

\* the worker threads that are running
AliveWorkers == {t \in Workers : is_alive(t)}

\* C5: in the form at most one worker thread is alive at any time, and a
\* step taken while the handle's worker is alive (a Start among them)
\* launches no thread and leaves the handle alone.
C5_OneWorker ==
    /\ [](Cardinality(AliveWorkers) <= 1)
    /\ [][WorkerActive =>
            /\ worker' = worker
            /\ \A t \in Workers :
                   /\ is_alive(t)' => is_alive(t)
                   /\ loop[t].pc # "begin" => loop'[t].pc # "begin"]_vars

C5_Witness ==
    /\ status_var = "Autoclicker läuft bereits."
    /\ WorkerActive
    /\ Cardinality(AliveWorkers) = 1

\* C6: once Stop has set the signal while a worker is alive, the signal
\* stays set for as long as that worker is alive and the handle keeps
\* naming it, whatever the user does, and the worker eventually terminates.
C6_StopTerminates ==
    /\ [][\A t \in Workers :
            (stop_event /\ is_alive(t) /\ is_alive(t)') =>
                stop_event' /\ worker' = worker]_vars
    /\ [](\A t \in Workers : is_alive(t) => t = worker)
    /\ (stop_event /\ WorkerActive) ~> ~WorkerActive

C6_Witness ==
    /\ pc = "gui"
    /\ stop_event
    /\ worker # 0
    /\ loop[worker].pc = "done"
    /\ loop[worker].config.count = 0

\* C7: a loop with a start delay D > 0 has emitted no event for as long as
\* its delay sleep has not ended.
C7_NoClickBeforeDelay ==
    \A t \in Threads :
        (loop[t].config.delay_s > 0 /\ ~loop[t].delayed) => loop[t].trace = <<>>

C7_Witness ==
    /\ loop[MainThread].config.delay_s > 0
    /\ loop[MainThread].delayed
    /\ loop[MainThread].trace # <<>>

\* C8: the exit code is 0 when the CLI loop has returned or was left by a
\* keyboard interrupt, and the non-zero argument-parser status when the
\* config built from the flags fails validation.
C8_ExitCodes ==
    pc = "exit" =>
        /\ loop[MainThread].pc \in {"done", "raised"} => exitCode = 0
        /\ (platform = "Windows" /\ Invalid(config)) =>
               exitCode = ParserErrorExit /\ exitCode # 0

C8_Witness ==
    /\ pc = "exit"
    /\ loop[MainThread].pc = "raised"
    /\ loop[MainThread].trace # <<>>
    /\ exitCode = 0

\* the form has been opened: run_gui sets the status line to "Bereit" and
\* the handlers never empty it
FormOpened == status_var # ""

\* C9: on a host other than Windows main builds and validates no config,
\* opens no form, starts no loop and emits no event, and it ends with the
\* argument-parser error status, whatever the flags are.
C9_PlatformAbort ==
    platform # "Windows" =>
        /\ pc \in {"parse", "platform", "exit"}
        /\ pc = "exit" => exitCode = ParserErrorExit
        /\ config = NoConfig
        /\ ~FormOpened
        /\ \A t \in Threads : loop[t].pc = "idle" /\ loop[t].trace = <<>>

C9_Witness ==
    /\ platform # "Windows"
    /\ pc = "exit"
    /\ args.gui
    /\ args.count = -1
    /\ exitCode = ParserErrorExit

\* C10: with --gui the form is opened for every value of the other flags,
\* and the loops started from the form use the form's fields only.
C10_GuiIgnoresFlags ==
    (platform = "Windows" /\ args.gui) =>
        /\ pc = "exit" => FormOpened
        /\ \A t \in Workers :
               is_alive(t) => loop[t].config.delay_s = 0

\* C11: a CLI invocation on Windows with interval > 0, delay >= 0 and
\* count >= 0 is never rejected: it ends with status 0 after its loop ran or
\* the form was opened.
C11_PositiveIntervalAccepted ==
    (/\ platform = "Windows"
     /\ pc = "exit"
     /\ args.interval > 0 /\ args.delay >= 0 /\ args.count >= 0) =>
        /\ exitCode = 0
        /\ FormOpened \/ loop[MainThread].pc # "idle"

\* the event code at position i of a loop's trace for this button
ExpectedCode(button, i) ==
    IF button = "left"
    THEN (IF i % 2 = 1 THEN 2 ELSE 4)
    ELSE (IF i % 2 = 1 THEN 8 ELSE 16)

\* C12: the trace of every loop alternates press, release, press, ...,
\* beginning with a press, with the codes 0x0002/0x0004 for the left button
\* and 0x0008/0x0010 for the right one; no code of the other button occurs.
C12_TraceAlternates ==
    \A t \in Threads :
        /\ loop[t].trace # <<>> => loop[t].config.button \in Buttons
        /\ \A i \in 1..Len(loop[t].trace) :
               loop[t].trace[i] = ExpectedCode(loop[t].config.button, i)

C12_Witness ==
    \E t \in Workers :
        /\ loop[t].config.button = "right"
        /\ loop[t].trace = <<8, 16, 8>>

\* the status texts of a rejected Start
RejectTexts == {"Autoclicker läuft bereits.", "Bitte gültige Zahlen eingeben.",
                MsgInterval, MsgDelay, MsgCount}

\* the form fields are not two integers, or not a valid config
FieldsRejected ==
    \/ ~ParseInt(interval_var).ok
    \/ ~ParseInt(count_var).ok
    \/ ParseInt(interval_var).value <= 0
    \/ ParseInt(count_var).value < 0

\* C13: a Start pressed while a worker is alive, or with fields that are
\* not numbers or not a valid config, changes nothing but the status text:
\* the handle, the signal, every loop and its trace, and the fields stay.
C13_RejectedStartFrame ==
    [][(start_clicking /\ (WorkerActive \/ FieldsRejected)) =>
          /\ status_var' \in RejectTexts
          /\ UNCHANGED <<worker, stop_event, loop, interval_var, count_var,
                         button_var, pc, exitCode, args, config>>]_vars

C13_Witness ==
    /\ status_var = "Bitte gültige Zahlen eingeben."
    /\ stop_event
    /\ worker # 0
    /\ loop[worker].pc = "done"
    /\ loop[worker].trace # <<>>

\* C14: the config of a running loop is the one it was started with: no step
\* changes the config of a worker that stays alive, and a step that edits a
\* form field changes no loop at all.
C14_ConfigFixedAtStart ==
    [][/\ \A t \in Workers :
              (is_alive(t) /\ is_alive(t)') => loop'[t].config = loop[t].config
       /\ (pc = "gui" /\ <<interval_var, count_var, button_var>>'
                            # <<interval_var, count_var, button_var>>) =>
              loop' = loop]_vars

C14_Witness ==
    /\ WorkerActive
    /\ loop[worker].trace # <<>>
    /\ loop[worker].config = ClickConfig(100, 0, "left", 0)
    /\ interval_var = <<"0">>
    /\ count_var = <<" ", "2">>
    /\ button_var = "right"

\* C17: when a loop has ended, by reaching its count, by observing the
\* signal or by a keyboard interrupt, its trace holds as many releases as
\* presses: it has even length.
C17_NoButtonHeld ==
    \A t \in Threads :
        loop[t].pc \in {"done", "raised"} => Len(loop[t].trace) % 2 = 0

\* C16: the step that starts a worker leaves the signal cleared, also when
\* a Stop had set it before, and the handle's worker has returned without a
\* press/release pair only if the signal has been set again since.
C16_StaleStopCleared ==
    /\ [][\A t \in Workers :
            (loop[t].pc # "begin" /\ loop'[t].pc = "begin") =>
                ~stop_event' /\ worker' = t]_vars
    /\ [](\A t \in Workers :
            (t = worker /\ loop[t].pc = "done" /\ Len(loop[t].trace) < 2) =>
                stop_event)

C16_Witness ==
    /\ worker # 0
    /\ loop[worker].stale_stop
    /\ loop[worker].pc = "begin"
    /\ ~stop_event
    /\ status_var = "Läuft..."

\* C18: a worker emits at most one press while the signal is set, the one
\* whose check came before the signal, and after that press it only
\* releases, sleeps, checks and returns.
C18_OnePairAfterSet ==
    \A t \in Workers :
        /\ loop[t].presses_after_set <= 1
        /\ (stop_event /\ loop[t].presses_after_set = 1) =>
               loop[t].pc \in {"up", "sleep", "test", "done", "killed"}
        /\ (stop_event /\ loop[t].sleeps_after_set = 1) =>
               loop[t].pc \in {"test", "done", "killed"}

C18_Witness ==
    \E t \in Workers :
        /\ loop[t].presses_after_set = 1
        /\ loop[t].pc = "done"
        /\ Len(loop[t].trace) = 4

\* presses thread t has emitted
Presses(t) == (Len(loop[t].trace) + 1) \div 2

\* the time of the Stop, in milliseconds after the Start
StopTimeMs == (clock.now - clock.since_set) * TickMs

====
